---- MODULE Spec2Model ----
(***************************************************************************)
(* Model of the MCP command-line client (client.py) and of the demo tool   *)
(* server it talks to (tools.py).                                          *)
(*                                                                         *)
(* The client is one coroutine.  pc is its position: either a synchronous  *)
(* point ("main", "connect", "prompt", "tool", "raised", "finally") or an   *)
(* await ("w_*") at which exactly the request held in inflight is          *)
(* outstanding.  Every action resumes the coroutine with the answer to the *)
(* outstanding request and runs the code up to the next request.           *)
(*                                                                         *)
(* Texts are sequences of chunks (single characters for data, literal      *)
(* pieces for formatted output); Python's None / value is the empty / the  *)
(* one-element sequence.                                                   *)
(***************************************************************************)
EXTENDS Integers, Sequences, FiniteSets, TLC

\* ---------------------------------------------------------------- bounds
MaxQueries == 3
MaxToolCalls == 2

\* ---------------------------------------------------- Python value helpers
None == <<>>
Some(x) == <<x>>

\* bool(x) of an optional text or optional list: None and empty are falsy
Truthy(opt) == opt # None /\ opt[1] # <<>>

\* str.endswith(suffix)
EndsWith(s, suffix) ==
    /\ Len(s) >= Len(suffix)
    /\ SubSeq(s, Len(s) - Len(suffix) + 1, Len(s)) = suffix

Whitespace == {" ", "\t"}

RECURSIVE LStrip(_)
LStrip(s) == IF s # <<>> /\ Head(s) \in Whitespace THEN LStrip(Tail(s)) ELSE s

RECURSIVE RStrip(_)
RStrip(s) ==
    IF s # <<>> /\ s[Len(s)] \in Whitespace
    THEN RStrip(SubSeq(s, 1, Len(s) - 1)) ELSE s

\* str.strip()
Strip(s) == LStrip(RStrip(s))

LowerChar(c) ==
    CASE c = "Q" -> "q" [] c = "U" -> "u" [] c = "I" -> "i" [] c = "T" -> "t"
      [] c = "H" -> "h" [] c = "S" -> "s" [] OTHER -> c

\* str.lower()
Lower(s) == [i \in 1..Len(s) |-> LowerChar(s[i])]

RECURSIVE Join(_, _)
\* sep.join(parts)
Join(sep, parts) ==
    IF parts = <<>> THEN <<>>
    ELSE IF Len(parts) = 1 THEN parts[1]
    ELSE parts[1] \o sep \o Join(sep, Tail(parts))

\* ------------------------------------------------------------ input domains
PyExt == <<".", "p", "y">>
JsExt == <<".", "j", "s">>
QuitWord == <<"q", "u", "i", "t">>

\* sys.argv[1:] : no argument, or one script path
Paths ==
    { <<"s", ".", "p", "y">>, <<"s", ".", "j", "s">>, <<"s", ".", "t", "s">>,
      <<"s", ".", "P", "Y">>, <<"s", ".", "p", "y", "c">>, <<"p", "y">>,
      <<".", "j", "s", "/", "s">>, <<>> }
Argvs == {None} \cup {Some(p) : p \in Paths}

\* lines typed at the prompt
InputLines ==
    { <<"q", "u", "i", "t">>, <<" ", "Q", "u", "I", "T", "\t">>,
      <<"Q", "U", "I", "T">>, <<" ", "q", "u", "i", "t", "s">>, <<>> }

\* ------------------------------------------------------------ exceptions
\* cls is the Python base class that decides which handler catches it
Exc(cls, type, site) == [cls |-> cls, type |-> type, site |-> site]
NoExc == None

\* outcomes of an awaited or blocking call that does not return normally:
\* an Exception subclass, or a BaseException (KeyboardInterrupt/CancelledError)
Failures == {"Exception", "BaseException"}

\* ------------------------------------------------------------ state
VARIABLES
    pc,              \* position of the main coroutine
    argv,            \* None or Some(path): sys.argv[1]
    session,         \* self.session: None or Some("ClientSession")
    initialized,     \* the session completed its initialize handshake
    exit_stack,      \* self.exit_stack: resources entered, in order
    acquired,        \* resources ever entered on the exit stack, in order
    released,        \* resources released so far, in release order
    cleanups,        \* number of completed cleanup() calls
    exc,             \* None or Some(exception being propagated / last raised)
    inflight,        \* set of outstanding requests
    connect_tools,   \* None or Some(tool list printed by connect_to_server)
    line,            \* None or Some(last line input() returned)
    query,           \* process_query's argument
    messages,        \* process_query's local message history
    final_text,      \* process_query's local list of output parts
    available_tools, \* process_query's tool declarations
    message,         \* None or Some(response.choices[0].message), first call
    idx,             \* index of the tool call being handled (for loop)
    tool_args,       \* json.loads result for the call being handled
    requests,        \* oracle requests of the current query, in issue order
    invoked,         \* call_tool requests of the current query, in issue order
    outcome,         \* what chat_loop printed for the last line read
    errorLines,      \* error lines printed by chat_loop
    iterations,      \* lines read by chat_loop that were not 'quit'
    exitCode         \* None or Some(status) once the process ended

vars == <<pc, argv, session, initialized, exit_stack, acquired, released,
          cleanups, exc, inflight, connect_tools, line, query, messages,
          final_text, available_tools, message, idx, tool_args, requests,
          invoked, outcome, errorLines, iterations, exitCode>>

connVars == <<session, initialized, exit_stack, acquired, released, cleanups>>
queryVars == <<query, messages, final_text, available_tools, message, idx,
               tool_args, requests, invoked>>
loopVars == <<line, outcome, errorLines, iterations>>

Resources == {"stdio", "session"}

Req(op) == [op |-> op]

Init ==
    /\ pc = "main"
    /\ argv \in Argvs
    /\ session = None
    /\ initialized = FALSE
    /\ exit_stack = <<>>
    /\ acquired = <<>>
    /\ released = <<>>
    /\ cleanups = 0
    /\ exc = NoExc
    /\ inflight = {}
    /\ connect_tools = None
    /\ line = None
    /\ query = <<>>
    /\ messages = <<>>
    /\ final_text = <<>>
    /\ available_tools = <<>>
    /\ message = None
    /\ idx = 0
    /\ tool_args = None
    /\ requests = <<>>
    /\ invoked = <<>>
    /\ outcome = None
    /\ errorLines = 0
    /\ iterations = 0
    /\ exitCode = None

\* ------------------------------------------------------------ main
\* main(): len(sys.argv) < 2 -> usage, sys.exit(1), before any client exists
MainUsage ==
    /\ pc = "main"
    /\ argv = None
    /\ pc' = "exited"
    /\ exitCode' = Some(1)
    /\ UNCHANGED <<argv, connVars, exc, inflight, connect_tools, queryVars,
                   loopVars>>

\* main(): client = MCPClient(); try: connect_to_server(...)
MainCreate ==
    /\ pc = "main"
    /\ argv # None
    /\ pc' = "connect"
    /\ session' = None
    /\ exit_stack' = <<>>
    /\ UNCHANGED <<argv, initialized, acquired, released, cleanups, exc,
                   inflight, connect_tools, queryVars, loopVars, exitCode>>

\* ------------------------------------------------------------ connect_to_server
\* variant: main swallows the connect failure and starts the chat loop
ConnectRaise_Swallow(cls, type, site) ==
    /\ pc' = "prompt"
    /\ exc' = Some(Exc(cls, type, site))
    /\ inflight' = {}

\* a failure inside connect_to_server propagates to main's finally
ConnectRaise(cls, type, site) ==
    /\ pc' = "finally"
    /\ exc' = Some(Exc(cls, type, site))
    /\ inflight' = {}

\* variant: the extension test is missing
IsSupported_NoCheck(path) == TRUE

\* is_python or is_js
IsSupported(path) == EndsWith(path, PyExt) \/ EndsWith(path, JsExt)

\* "python" if is_python else "node"
Command(path) == IF EndsWith(path, PyExt) THEN "python" ELSE "node"

\* extension check, then enter stdio_client(server_params)
ConnectToServer ==
    /\ pc = "connect"
    /\ IF ~IsSupported(argv[1])
       THEN ConnectRaise("Exception", "ValueError", "extension")
       ELSE /\ pc' = "w_stdio"
            /\ inflight' = inflight \cup
                   {[op |-> "spawn", command |-> Command(argv[1]),
                     args |-> <<argv[1]>>]}
            /\ exc' = exc
    /\ UNCHANGED <<argv, connVars, connect_tools, queryVars, loopVars,
                   exitCode>>

\* stdio_client entered (subprocess running, pipes open), then enter
\* ClientSession(self.stdio, self.write)
StdioEntered ==
    /\ pc = "w_stdio"
    /\ \/ /\ exit_stack' = Append(exit_stack, "stdio")
          /\ acquired' = Append(acquired, "stdio")
          /\ pc' = "w_session"
          /\ inflight' = {Req("session_enter")}
          /\ exc' = exc
       \/ /\ \E f \in Failures : ConnectRaise(f, "TransportError", "spawn")
          /\ UNCHANGED <<exit_stack, acquired>>
    /\ UNCHANGED <<argv, session, initialized, released, cleanups,
                   connect_tools, queryVars, loopVars, exitCode>>

\* self.session assigned, then await self.session.initialize()
SessionEntered ==
    /\ pc = "w_session"
    /\ \/ /\ exit_stack' = Append(exit_stack, "session")
          /\ acquired' = Append(acquired, "session")
          /\ session' = Some("ClientSession")
          /\ pc' = "w_init"
          /\ inflight' = {Req("initialize")}
          /\ exc' = exc
       \/ /\ \E f \in Failures :
                ConnectRaise(f, "TransportError", "session_enter")
          /\ UNCHANGED <<exit_stack, acquired, session>>
    /\ UNCHANGED <<argv, initialized, released, cleanups, connect_tools,
                   queryVars, loopVars, exitCode>>

\* ------------------------------------------------------------ tool process
\* descriptors reported by list_tools: tools.py registers echo and dice_roll
\* (add, convert_temperature and word_count are registered the same way)
EchoTool ==
    [name |-> "echo", description |-> "Return the exact message you send in.",
     inputSchema |-> "{message: string}"]
DiceTool ==
    [name |-> "dice_roll",
     description |-> "Roll an n-sided die (default 6) and return the result.",
     inputSchema |-> "{sides: integer = 6}"]

\* the catalogue tools.py reports when the client connects
ServerCatalog == <<EchoTool, DiceTool>>

\* answers a later list_tools can give: the same catalogue, or the changed
\* one of a tool process that dropped a tool since
ToolLists == { ServerCatalog, <<DiceTool>> }

\* wire tokens of the JSON-encoded arguments string
Tok(t, v) == [t |-> t, v |-> v]
LB == Tok("punct", "{")
RB == Tok("punct", "}")
Colon == Tok("punct", ":")
Comma == Tok("punct", ",")
Str(v) == Tok("str", v)
Num(v) == Tok("num", v)

IsValueTok(tok) == tok.t \in {"str", "num"}

\* dict[key] = value on an insertion-ordered dict (sequence of items)
DictSet(d, k, v) ==
    IF \E i \in 1..Len(d) : d[i].k = k
    THEN [i \in 1..Len(d) |-> IF d[i].k = k THEN [k |-> k, v |-> v] ELSE d[i]]
    ELSE Append(d, [k |-> k, v |-> v])

DictHas(d, k) == \E i \in 1..Len(d) : d[i].k = k
DictGet(d, k) == d[CHOOSE i \in 1..Len(d) : d[i].k = k].v

JsonError == [ok |-> FALSE, value |-> <<>>]

RECURSIVE ParseMembers(_, _)
\* members of a JSON object after '{' or ',' : key ':' value (',' | '}')
ParseMembers(toks, d) ==
    IF Len(toks) < 4 THEN JsonError
    ELSE IF toks[1].t # "str" \/ toks[2] # Colon \/ ~IsValueTok(toks[3])
    THEN JsonError
    ELSE LET d2 == DictSet(d, toks[1].v, toks[3])
         IN  IF toks[4] = RB
             THEN IF Len(toks) = 4 THEN [ok |-> TRUE, value |-> d2]
                  ELSE JsonError
             ELSE IF toks[4] = Comma
             THEN ParseMembers(SubSeq(toks, 5, Len(toks)), d2)
             ELSE JsonError

\* json.loads(tool_call.function.arguments)
JsonLoads(toks) ==
    IF Len(toks) < 2 \/ toks[1] # LB THEN JsonError
    ELSE IF toks = <<LB, RB>> THEN [ok |-> TRUE, value |-> <<>>]
    ELSE ParseMembers(Tail(toks), <<>>)

NumVal(v) == CASE v = "0" -> 0 [] v = "1" -> 1 [] v = "2" -> 2 [] OTHER -> 6
IntStr(n) ==
    CASE n = 0 -> "0" [] n = 1 -> "1" [] n = 2 -> "2" [] n = 3 -> "3"
      [] n = 4 -> "4" [] n = 5 -> "5" [] OTHER -> "6"

ToolResult(isError, text) == [isError |-> isError, text |-> text]

\* async def echo(message: str) -> str
echo(args) ==
    IF DictHas(args, "message") /\ DictGet(args, "message").t = "str"
    THEN {ToolResult(FALSE, <<DictGet(args, "message").v>>)}
    ELSE {ToolResult(TRUE, <<"Error executing tool echo: validation error">>)}

\* async def dice_roll(sides: int = 6) -> str   (the leading emoji is left out
\* of the text)
dice_roll(args) ==
    IF DictHas(args, "sides") /\ DictGet(args, "sides").t # "num"
    THEN {ToolResult(TRUE,
                     <<"Error executing tool dice_roll: validation error">>)}
    ELSE LET sides == IF DictHas(args, "sides")
                      THEN NumVal(DictGet(args, "sides").v) ELSE 6
         IN  IF sides < 1
             THEN {ToolResult(TRUE,
                     <<"Error executing tool dice_roll: empty range">>)}
             ELSE {ToolResult(FALSE, <<"Rolled a ", IntStr(sides),
                                       "-sided die: ", IntStr(result)>>) :
                   result \in 1..sides}

\* what the tool process answers to call_tool(name, arguments): the tool's
\* return value, or an isError result for an unknown tool / a raising tool
CallTool(name, args) ==
    CASE name = "echo" -> echo(args)
      [] name = "dice_roll" -> dice_roll(args)
      [] OTHER -> {ToolResult(TRUE, <<"Unknown tool: ", name>>)}

BoolStr(b) == IF b THEN "True" ELSE "False"

\* str(tool_response)
StrOf(result) ==
    <<"meta=None content=[TextContent(type='text', text='">> \o result.text
        \o <<"')] isError=", BoolStr(result.isError)>>

ReprValue(tok) == IF tok.t = "str" THEN <<"'", tok.v, "'">> ELSE <<tok.v>>

RECURSIVE ReprItems(_)
ReprItems(d) ==
    IF d = <<>> THEN <<>>
    ELSE <<"'", d[1].k, "': ">> \o ReprValue(d[1].v)
            \o (IF Len(d) > 1 THEN <<", ">> ELSE <<>>) \o ReprItems(Tail(d))

\* repr of the decoded arguments dict, as the f-string renders it
Repr(d) == <<"{">> \o ReprItems(d) \o <<"}">>

\* ------------------------------------------------------------ model oracle
\* message.content of a completion: None, "" or a text
Contents == {None, Some(<<>>), Some(<<"o", "k">>)}

\* function part of a tool call the model may emit
CallKinds ==
    { [name |-> "echo", arguments |-> <<LB, Str("message"), Colon, Str("hi"), RB>>],
      [name |-> "dice_roll", arguments |-> <<LB, Str("sides"), Colon, Num("0"), RB>>],
      [name |-> "nope", arguments |-> <<LB, RB>>],
      [name |-> "echo", arguments |-> <<LB, Str("message"), Colon>>] }

ToolCall(i, fn) == [id |-> i, type |-> "function", function |-> fn]

\* tool_calls lists of exactly n calls; the call at position i has id i
CallLists(n) ==
    { [i \in 1..n |-> ToolCall(i, f[i])] : f \in [1..n -> CallKinds] }

\* message.tool_calls of a completion: None or a list
ToolCallsValues ==
    {None} \cup {Some(l) : l \in UNION {CallLists(n) : n \in 0..MaxToolCalls}}

\* tool_call.model_dump()
ModelDump(tc) ==
    [id |-> tc.id, type |-> tc.type,
     function |-> [name |-> tc.function.name,
                   arguments |-> tc.function.arguments]]

\* ------------------------------------------------------------ process_query
UserMessage(q) == [role |-> "user", content |-> q]
AssistantMessage(tc) == [role |-> "assistant", tool_calls |-> <<ModelDump(tc)>>]
ToolMessage(tc, result) ==
    [role |-> "tool", tool_call_id |-> tc.id, content |-> StrOf(result)]

\* available_tools: one function declaration per descriptor, in order
Declarations(tools) ==
    [i \in 1..Len(tools) |->
        [type |-> "function",
         function |-> [name |-> tools[i].name,
                       description |-> tools[i].description,
                       parameters |-> tools[i].inputSchema]]]

\* chat.completions.create(..., tools=available_tools, tool_choice="auto")
FirstRequest(msgs, decls) ==
    [op |-> "oracle", messages |-> msgs, tools |-> Some(decls),
     tool_choice |-> Some("auto"), max_tokens |-> 1000]

\* variant: the follow-up call offers the tools again
FollowUpRequest_WithTools(msgs) ==
    [op |-> "oracle", messages |-> msgs, tools |-> Some(available_tools),
     tool_choice |-> Some("auto"), max_tokens |-> 1000]

\* chat.completions.create(model, messages, max_tokens) inside the for loop
FollowUpRequest(msgs) ==
    [op |-> "oracle", messages |-> msgs, tools |-> None,
     tool_choice |-> None, max_tokens |-> 1000]

CallToolRequest(tc, args) ==
    [op |-> "call_tool", id |-> tc.id, name |-> tc.function.name,
     arguments |-> args]

\* variant: the content of a completion is not recorded
RecordContent_Skip(ft, content) == ft

\* if content: final_text.append(content)
RecordContent(ft, content) ==
    IF Truthy(content) THEN Append(ft, content[1]) ELSE ft

\* f"[Tool {tool_name} called with args {tool_args}]"
TraceLine(name, args) ==
    <<"[Tool ", name, " called with args ">> \o Repr(args) \o <<"]">>

\* the two final_text.append calls after call_tool returned
RecordToolOutput(ft, name, args, result) ==
    Append(Append(ft, TraceLine(name, args)), StrOf(result))

\* variant: the tool result is appended before the assistant tool_call
AppendPair_Swapped(msgs, tc, result) ==
    Append(Append(msgs, ToolMessage(tc, result)), AssistantMessage(tc))

\* variant: only the latest exchange is kept after the user message
AppendPair_Replace(msgs, tc, result) ==
    <<msgs[1], AssistantMessage(tc), ToolMessage(tc, result)>>

\* variant: the assistant's text is put in the history before the pair
AppendPair_WithContent(msgs, tc, result) ==
    Append(Append(Append(msgs,
        [role |-> "assistant", content |-> message[1].content]),
        AssistantMessage(tc)), ToolMessage(tc, result))

\* the two messages.append calls after call_tool returned
AppendPair(msgs, tc, result) ==
    Append(Append(msgs, AssistantMessage(tc)), ToolMessage(tc, result))

\* return "\n".join(final_text), printed by chat_loop
Response(ft) == [kind |-> "response", text |-> Join(<<"\n">>, ft)]

\* variant: the failure is raised outside any try block of chat_loop
LoopRaise_Uncaught(cls, type, site) ==
    /\ pc' = "finally"
    /\ exc' = Some(Exc(cls, type, site))
    /\ inflight' = {}

\* a failure inside chat_loop's try block
LoopRaise(cls, type, site) ==
    /\ pc' = "raised"
    /\ exc' = Some(Exc(cls, type, site))
    /\ inflight' = {}

\* ------------------------------------------------------------ connect (end)
\* handshake done, then response = await self.session.list_tools()
Initialized ==
    /\ pc = "w_init"
    /\ \/ /\ initialized' = TRUE
          /\ pc' = "w_list0"
          /\ inflight' = {Req("list_tools")}
          /\ exc' = exc
       \/ /\ \E f \in Failures : ConnectRaise(f, "TransportError", "initialize")
          /\ initialized' = initialized
    /\ UNCHANGED <<argv, session, exit_stack, acquired, released, cleanups,
                   connect_tools, queryVars, loopVars, exitCode>>

\* tools printed; connect_to_server returns and chat_loop prints its banner
ConnectListed ==
    /\ pc = "w_list0"
    /\ \/ /\ connect_tools' = Some(ServerCatalog)
          /\ pc' = "prompt"
          /\ inflight' = {}
          /\ exc' = exc
       \/ /\ \E f \in Failures : ConnectRaise(f, "TransportError", "list_tools_connect")
          /\ connect_tools' = connect_tools
    /\ UNCHANGED <<argv, connVars, queryVars, loopVars, exitCode>>

\* ------------------------------------------------------------ chat_loop
\* variant: the comparison is case-sensitive
IsQuit_NoLower(q) == q = QuitWord

\* query.lower() == 'quit'
IsQuit(q) == Lower(q) = QuitWord

\* the locals of an earlier process_query call are gone
FreshLocals ==
    /\ available_tools' = <<>>
    /\ message' = None
    /\ idx' = 0
    /\ tool_args' = None
    /\ requests' = <<>>
    /\ invoked' = <<>>

\* variant: the message list outlives the call and is appended to
StartQuery_KeepHistory(line_in, q) ==
    /\ iterations < MaxQueries
    /\ iterations' = iterations + 1
    /\ line' = Some(line_in)
    /\ query' = q
    /\ messages' = Append(messages, UserMessage(q))
    /\ final_text' = <<>>
    /\ FreshLocals
    /\ outcome' = None
    /\ inflight' = {Req("list_tools")}
    /\ pc' = "w_list"
    /\ UNCHANGED <<errorLines, exc>>

\* response = await self.process_query(query), up to its first await:
\* messages and final_text are created, then list_tools is requested
StartQuery(line_in, q) ==
    /\ iterations < MaxQueries
    /\ iterations' = iterations + 1
    /\ line' = Some(line_in)
    /\ query' = q
    /\ messages' = <<UserMessage(q)>>
    /\ final_text' = <<>>
    /\ FreshLocals
    /\ outcome' = None
    /\ inflight' = {Req("list_tools")}
    /\ pc' = "w_list"
    /\ UNCHANGED <<errorLines, exc>>

\* one pass of the while loop up to the first await of process_query:
\* input().strip(), the quit test, then process_query's prologue
ChatRead ==
    /\ pc = "prompt"
    /\ \/ \E line_in \in InputLines :
            LET q == Strip(line_in)
            IN  IF IsQuit(q)
                THEN /\ pc' = "finally"
                     /\ line' = Some(line_in)
                     /\ query' = <<>>
                     /\ messages' = <<>>
                     /\ final_text' = <<>>
                     /\ FreshLocals
                     /\ outcome' = None
                     /\ UNCHANGED <<errorLines, iterations, exc, inflight>>
                ELSE StartQuery(line_in, q)
       \/ /\ iterations < MaxQueries
          /\ iterations' = iterations + 1
          /\ \/ LoopRaise("Exception", "EOFError", "input")
             \/ LoopRaise("BaseException", "KeyboardInterrupt", "input")
          /\ outcome' = None
          /\ line' = None
          /\ query' = <<>>
          /\ messages' = <<>>
          /\ final_text' = <<>>
          /\ FreshLocals
          /\ errorLines' = errorLines
    /\ UNCHANGED <<argv, connVars, connect_tools, exitCode>>

\* variant: the handler prints the error line and leaves the loop
ChatCatch_Break ==
    /\ pc = "raised"
    /\ exc[1].cls = "Exception"
    /\ errorLines' = errorLines + 1
    /\ outcome' = Some([kind |-> "error", text |-> <<"Error: ", exc[1].type>>])
    /\ exc' = NoExc
    /\ pc' = "finally"
    /\ query' = <<>>
    /\ messages' = <<>>
    /\ final_text' = <<>>
    /\ FreshLocals
    /\ UNCHANGED <<argv, connVars, inflight, connect_tools, line, iterations,
                   exitCode>>

\* except Exception as e: print the error line, loop again; the frame of
\* process_query is unwound, its locals are gone
ChatCatch ==
    /\ pc = "raised"
    /\ exc[1].cls = "Exception"
    /\ errorLines' = errorLines + 1
    /\ outcome' = Some([kind |-> "error", text |-> <<"Error: ", exc[1].type>>])
    /\ exc' = NoExc
    /\ pc' = "prompt"
    /\ query' = <<>>
    /\ messages' = <<>>
    /\ final_text' = <<>>
    /\ FreshLocals
    /\ UNCHANGED <<argv, connVars, inflight, connect_tools, line, iterations,
                   exitCode>>

\* anything that is not an Exception leaves chat_loop for main's finally
ChatEscape ==
    /\ pc = "raised"
    /\ exc[1].cls # "Exception"
    /\ pc' = "finally"
    /\ query' = <<>>
    /\ messages' = <<>>
    /\ final_text' = <<>>
    /\ FreshLocals
    /\ UNCHANGED <<argv, connVars, exc, inflight, connect_tools, loopVars,
                   exitCode>>

\* ------------------------------------------------------------ process_query
\* tool declarations built, then the initial LLM call
PQListed ==
    /\ pc = "w_list"
    /\ \/ \E tl \in ToolLists :
            LET req == FirstRequest(messages, Declarations(tl))
            IN  /\ available_tools' = Declarations(tl)
                /\ requests' = Append(requests, req)
                /\ inflight' = {req}
                /\ pc' = "w_first"
                /\ exc' = exc
       \/ /\ \E f \in Failures : LoopRaise(f, "TransportError", "list_tools")
          /\ UNCHANGED <<available_tools, requests>>
    /\ UNCHANGED <<argv, connVars, connect_tools, query, messages, final_text,
                   message, idx, tool_args, invoked, loopVars, exitCode>>

\* first completion received: record content, then enter the for loop or
\* return the joined text to chat_loop, which prints it
PQFirstCompleted ==
    /\ pc = "w_first"
    /\ \/ \E content \in Contents, tcs \in ToolCallsValues :
            /\ final_text' = RecordContent(final_text, content)
            /\ message' = Some([content |-> content, tool_calls |-> tcs])
            /\ inflight' = {}
            /\ exc' = exc
            /\ IF Truthy(tcs)
               THEN /\ idx' = 1
                    /\ pc' = "tool"
                    /\ outcome' = outcome
               ELSE /\ idx' = idx
                    /\ pc' = "prompt"
                    /\ outcome' = Some(Response(final_text'))
       \/ /\ \E f \in Failures :
                LoopRaise(f, "ModelRequestError", "first_completion")
          /\ UNCHANGED <<final_text, message, idx, outcome>>
    /\ UNCHANGED <<argv, connVars, connect_tools, query, messages,
                   available_tools, tool_args, requests, invoked, line,
                   errorLines, iterations, exitCode>>

\* variant: the calls that remain are all sent at once and awaited together
PQToolStart_Gather ==
    /\ pc = "tool"
    /\ LET calls == message[1].tool_calls[1]
           tc == calls[idx]
           parsed == JsonLoads(tc.function.arguments)
       IN  IF ~parsed.ok
           THEN /\ LoopRaise("Exception", "JSONDecodeError", "json_loads")
                /\ UNCHANGED <<tool_args, invoked>>
           ELSE /\ tool_args' = Some(parsed.value)
                /\ invoked' = Append(invoked, CallToolRequest(tc, parsed.value))
                /\ inflight' =
                      {CallToolRequest(calls[j],
                           JsonLoads(calls[j].function.arguments).value) :
                       j \in {n \in idx..Len(calls) :
                                 JsonLoads(calls[n].function.arguments).ok}}
                /\ pc' = "w_tool"
                /\ exc' = exc
    /\ UNCHANGED <<argv, connVars, connect_tools, query, messages, final_text,
                   available_tools, message, idx, requests, loopVars,
                   exitCode>>

\* head of one for-loop pass: decode the arguments, then call the MCP tool
PQToolStart ==
    /\ pc = "tool"
    /\ LET tc == message[1].tool_calls[1][idx]
           parsed == JsonLoads(tc.function.arguments)
       IN  IF ~parsed.ok
           THEN /\ LoopRaise("Exception", "JSONDecodeError", "json_loads")
                /\ UNCHANGED <<tool_args, invoked>>
           ELSE /\ tool_args' = Some(parsed.value)
                /\ invoked' = Append(invoked, CallToolRequest(tc, parsed.value))
                /\ inflight' = {CallToolRequest(tc, parsed.value)}
                /\ pc' = "w_tool"
                /\ exc' = exc
    /\ UNCHANGED <<argv, connVars, connect_tools, query, messages, final_text,
                   available_tools, message, idx, requests, loopVars,
                   exitCode>>

\* tool result received: trace and raw output recorded, the message pair
\* appended, then the follow-up LLM call of this pass
PQToolReturned ==
    /\ pc = "w_tool"
    /\ LET tc == message[1].tool_calls[1][idx]
       IN  \/ \E result \in CallTool(tc.function.name, tool_args[1]) :
                LET msgs == AppendPair(messages, tc, result)
                IN  /\ final_text' = RecordToolOutput(final_text,
                                        tc.function.name, tool_args[1], result)
                    /\ messages' = msgs
                    /\ requests' = Append(requests, FollowUpRequest(msgs))
                    /\ inflight' = {FollowUpRequest(msgs)}
                    /\ pc' = "w_follow"
                    /\ exc' = exc
           \/ /\ \E f \in Failures : LoopRaise(f, "TransportError", "call_tool")
              /\ UNCHANGED <<final_text, messages, requests>>
    /\ UNCHANGED <<argv, connVars, connect_tools, query, available_tools,
                   message, idx, tool_args, invoked, loopVars, exitCode>>

\* the for loop goes on while calls remain
HasNext(i, calls) == i < Len(calls)

\* follow-up completion received: record content, then the next pass of the
\* for loop or return the joined text to chat_loop, which prints it
PQFollowCompleted ==
    /\ pc = "w_follow"
    /\ \/ \E content \in Contents, tcs \in {None} \cup {Some(l) : l \in CallLists(1)} :
            /\ final_text' = RecordContent(final_text, content)
            /\ inflight' = {}
            /\ exc' = exc
            /\ IF HasNext(idx, message[1].tool_calls[1])
               THEN /\ idx' = idx + 1
                    /\ pc' = "tool"
                    /\ outcome' = outcome
               ELSE /\ idx' = idx
                    /\ pc' = "prompt"
                    /\ outcome' = Some(Response(final_text'))
       \/ /\ \E f \in Failures : LoopRaise(f, "ModelRequestError", "follow_up")
          /\ UNCHANGED <<final_text, idx, outcome>>
    /\ UNCHANGED <<argv, connVars, connect_tools, query, messages,
                   available_tools, message, tool_args, requests, invoked,
                   line, errorLines, iterations, exitCode>>

\* ------------------------------------------------------------ cleanup
RECURSIVE Reverse(_)
Reverse(s) == IF s = <<>> THEN <<>> ELSE Append(Reverse(Tail(s)), Head(s))

\* variant: only the context entered last is exited
AClose_Leak(stack) == IF stack = <<>> THEN <<>> ELSE <<stack[Len(stack)]>>

\* AsyncExitStack.aclose(): exit every entered context, last entered first
AClose(stack) == Reverse(stack)

\* main's finally: await client.cleanup(); then the pending exception, if any,
\* ends the process
Cleanup ==
    /\ pc = "finally"
    /\ released' = released \o AClose(exit_stack)
    /\ exit_stack' = <<>>
    /\ cleanups' = cleanups + 1
    /\ inflight' = {}
    /\ pc' = "exited"
    /\ exitCode' = IF exc = NoExc THEN Some(0) ELSE Some(1)
    /\ UNCHANGED <<argv, session, initialized, acquired, exc, connect_tools,
                   queryVars, loopVars>>

Next ==
    \/ MainUsage
    \/ MainCreate
    \/ ConnectToServer
    \/ StdioEntered
    \/ SessionEntered
    \/ Initialized
    \/ ConnectListed
    \/ ChatRead
    \/ ChatCatch
    \/ ChatEscape
    \/ PQListed
    \/ PQFirstCompleted
    \/ PQToolStart
    \/ PQToolReturned
    \/ PQFollowCompleted
    \/ Cleanup

Spec == Init /\ [][Next]_vars

TypeOK ==
    /\ pc \in {"main", "connect", "w_stdio", "w_session", "w_init", "w_list0",
               "prompt", "w_list", "w_first", "tool", "w_tool", "w_follow",
               "raised", "finally", "exited"}
    /\ Cardinality(inflight) <= 1
    /\ iterations \in 0..MaxQueries
    /\ errorLines \in 0..MaxQueries

\* ------------------------------------------------------------ properties
\* tool_calls of the first response of the current query (<<>> when absent)
FirstCalls ==
    IF message # None /\ Truthy(message[1].tool_calls)
    THEN message[1].tool_calls[1] ELSE <<>>

\* process_query has returned and chat_loop has printed its text
Returned == outcome # None /\ outcome[1].kind = "response"

\* msgs is the user query followed by the pairs of the first n calls, in order
HasPairs(msgs, calls, n) ==
    /\ Len(msgs) = 1 + 2 * n
    /\ msgs[1].role = "user"
    /\ \A i \in 1..n :
          /\ msgs[2 * i].role = "assistant"
          /\ msgs[2 * i].tool_calls = <<calls[i]>>
          /\ msgs[2 * i + 1].role = "tool"
          /\ msgs[2 * i + 1].tool_call_id = calls[i].id

InvokedIds == [i \in 1..Len(invoked) |-> invoked[i].id]
CallIds(calls) == [i \in 1..Len(calls) |-> calls[i].id]

\* C1: when the first response carries N >= 1 tool calls, every follow-up
\* oracle request is issued with all N (assistant tool_call, tool result)
\* pairs already in its history, in list order, and a returned query has made
\* exactly the N invocations in list order.
C1_AllPairsBeforeFollowUp ==
    FirstCalls # <<>> =>
        /\ \A k \in 2..Len(requests) :
              HasPairs(requests[k].messages, FirstCalls, Len(FirstCalls))
        /\ Returned => InvokedIds = CallIds(FirstCalls)

\* C2: a query issues at most two oracle requests; the second one only when
\* the first response has tool calls and only after all of them were invoked.
C2_AtMostTwoRequests ==
    /\ Len(requests) <= 2
    /\ Len(requests) = 2 =>
          FirstCalls # <<>> /\ Len(invoked) = Len(FirstCalls)

\* the text of an optional content ("" when there is none)
TextOf(content) == IF content = None THEN <<>> ELSE content[1]

\* C3: when the first response has no tool calls, the query makes no tool
\* invocation, issues no second oracle request, appends no tool-role message,
\* and what process_query returns is exactly the first response's content.
C3_NoToolCalls ==
    (message # None /\ FirstCalls = <<>>) =>
        /\ invoked = <<>>
        /\ Len(requests) = 1
        /\ \A i \in 1..Len(messages) : messages[i].role # "tool"
        /\ messages = <<UserMessage(query)>>
        /\ Returned
        /\ outcome[1].text = TextOf(message[1].content)

C3_Witness ==
    /\ Returned
    /\ message # None
    /\ message[1].tool_calls = Some(<<>>)
    /\ message[1].content = Some(<<"o", "k">>)
    /\ outcome[1].text = <<"o", "k">>

\* C4: a failing tool invocation (unknown tool, tool execution failure,
\* channel broken mid-call) never raises out of process_query.
C4_ToolFailureAbsorbed ==
    ~(exc # NoExc /\ exc[1].cls = "Exception" /\ exc[1].site = "call_tool")

\* C5: malformed wire-encoded arguments never abort the query.
C5_MalformedArgsAbsorbed ==
    ~(exc # NoExc /\ exc[1].site = "json_loads")

\* C6: an Exception raised during a query is caught by chat_loop: exactly one
\* error line is printed for it, the loop goes back to the prompt, and the
\* session and its resources are left as they were (entered, not released).
C6_ErrorCaught ==
    /\ [][(pc = "raised" /\ exc[1].cls = "Exception") =>
             /\ pc' = "prompt"
             /\ errorLines' = errorLines + 1
             /\ outcome' # None /\ outcome'[1].kind = "error"
             /\ exitCode' = None
             /\ UNCHANGED connVars]_vars
    /\ [][errorLines' # errorLines => pc = "raised"]_vars
    /\ [](errorLines <= iterations)
    /\ [](pc = "prompt" =>
             /\ initialized
             /\ session # None
             /\ exit_stack = <<"stdio", "session">>
             /\ released = <<>>
             /\ cleanups = 0)

\* a second query was answered after the first line read ended in an error
C6_Witness ==
    /\ pc = "prompt"
    /\ errorLines = 1
    /\ iterations = 2
    /\ Returned

Occurs(r, s) == \E i \in 1..Len(s) : s[i] = r
NoDuplicates(s) == \A i, j \in 1..Len(s) : i # j => s[i] # s[j]

\* C7: once the client exists, the process ends only after exactly one
\* cleanup; every resource that was acquired has then been released, no
\* resource is released twice and none that was never acquired.
C7_CleanupOnce ==
    /\ cleanups <= 1
    /\ NoDuplicates(released)
    /\ \A i \in 1..Len(released) : Occurs(released[i], acquired)
    /\ cleanups = 0 => released = <<>>
    /\ (pc = "exited" /\ argv # None) =>
          /\ cleanups = 1
          /\ exit_stack = <<>>
          /\ \A j \in 1..Len(acquired) : Occurs(acquired[j], released)

\* exit after an error escaped chat_loop in the middle of a tool call
C7_Witness ==
    /\ pc = "exited"
    /\ exc # NoExc
    /\ exc[1].site = "call_tool"
    /\ acquired = <<"stdio", "session">>
    /\ released = <<"session", "stdio">>
    /\ cleanups = 1

\* the path does not end in .py or .js
ExtUnsupported(path) ==
    LET n == Len(path)
    IN  ~(n >= 3 /\ <<path[n - 2], path[n - 1], path[n]>> \in {PyExt, JsExt})

\* C8: with an unsupported script extension connect_to_server fails at once
\* (ValueError): no subprocess is spawned, no transport or session is opened,
\* no handshake or list-tools request is sent and the session stays unset.
C8_UnsupportedExtension ==
    (argv # None /\ ExtUnsupported(argv[1])) =>
        /\ pc \in {"main", "connect", "finally", "exited"}
        /\ inflight = {}
        /\ acquired = <<>>
        /\ exit_stack = <<>>
        /\ session = None
        /\ ~initialized
        /\ connect_tools = None
        /\ pc \in {"finally", "exited"} =>
              exc = Some(Exc("Exception", "ValueError", "extension"))

C8_Witness ==
    /\ pc = "finally"
    /\ argv = Some(<<"s", ".", "P", "Y">>)
    /\ exc = Some(Exc("Exception", "ValueError", "extension"))

ConnectSites ==
    {"extension", "spawn", "session_enter", "initialize", "list_tools_connect"}
LoopPcs == {"prompt", "w_list", "w_first", "tool", "w_tool", "w_follow", "raised"}

\* C9: a list-tools, tool-call or oracle request is outstanding only on an
\* initialized, open session; and after any connect-time failure the chat
\* loop never starts: no line is read and no query is processed.
C9_InitializedFirst ==
    /\ \A r \in inflight :
          r.op \in {"list_tools", "call_tool", "oracle"} =>
              initialized /\ session # None /\ cleanups = 0
    /\ (pc \in LoopPcs \/ iterations > 0 \/ requests # <<>> \/ invoked # <<>>)
          => initialized /\ connect_tools # None
    /\ (exc # NoExc /\ exc[1].site \in ConnectSites) =>
          /\ pc \in {"finally", "exited"}
          /\ iterations = 0
          /\ line = None
          /\ requests = <<>>
          /\ invoked = <<>>
          /\ outcome = None

\* the handshake failed and the process ended without a chat loop
C9_Witness ==
    /\ pc = "exited"
    /\ exc # NoExc
    /\ exc[1].site = "initialize"
    /\ iterations = 0

\* l is q surrounded by whitespace only, and q has none at its ends
Trims(l, q) ==
    /\ q = <<>> \/ (q[1] \notin Whitespace /\ q[Len(q)] \notin Whitespace)
    /\ \E a \in 0..Len(l) :
          /\ a + Len(q) <= Len(l)
          /\ SubSeq(l, a + 1, a + Len(q)) = q
          /\ \A k \in 1..Len(l) :
                (k <= a \/ k > a + Len(q)) => l[k] \in Whitespace

\* every spelling of 'quit' in upper and lower case
QuitSpellings ==
    { <<a, b, c, d>> : a \in {"q", "Q"}, b \in {"u", "U"},
                       c \in {"i", "I"}, d \in {"t", "T"} }

IsQuitLine(l) == \E q \in QuitSpellings : Trims(l, q)

\* C10: a line that is 'quit' up to surrounding whitespace and case ends the
\* loop with no request issued for it; the loop ends normally only that way,
\* from the prompt; every other line, the empty one included, starts
\* process_query with the trimmed line as the query; and the loop is back at
\* the prompt only after a result or an error line was printed.
C10_QuitEndsLoop ==
    /\ [][(pc = "prompt" /\ pc' # "raised") =>
             IF IsQuitLine(line'[1])
             THEN /\ pc' = "finally"
                  /\ exc' = NoExc
                  /\ inflight' = {}
                  /\ requests' = <<>>
                  /\ invoked' = <<>>
             ELSE /\ pc' = "w_list"
                  /\ Trims(line'[1], query')
                  /\ messages' = <<UserMessage(query')>>]_vars
    /\ [][(pc # "finally" /\ pc' = "finally" /\ exc' = NoExc) =>
             pc = "prompt" /\ IsQuitLine(line'[1])]_vars
    /\ []((pc = "prompt" /\ iterations > 0) => outcome # None)

\* 'quit' typed with blanks and capitals, after one query was processed
C10_Witness ==
    /\ pc = "finally"
    /\ line = Some(<<" ", "Q", "u", "I", "T", "\t">>)
    /\ exc = NoExc
    /\ iterations = 1

\* positions inside process_query after its first oracle request was issued
QueryPcs == {"w_first", "tool", "w_tool", "w_follow"}

\* lines read before the current one whose query returned normally
EarlierReturned == iterations - 1 - errorLines

\* no assistant tool_call message without a tool-role message right after it
NoOrphan(msgs) ==
    \A i \in 1..Len(msgs) :
        msgs[i].role = "assistant" =>
            i < Len(msgs) /\ msgs[i + 1].role = "tool"


\* C11 (as stated): in a query that follows an aborted one, the history the
\* oracle is sent still holds the earlier queries that returned (at least one
\* message for each, before this query's own user message) and no unpaired
\* assistant tool_call message.
C11_HistoryKept ==
    (pc \in QueryPcs /\ requests # <<>> /\ errorLines >= 1) =>
        /\ Len(requests[1].messages) >= 1 + EarlierReturned
        /\ \A k \in 1..Len(requests) : NoOrphan(requests[k].messages)

\* C11 (amended): no history is carried from one query to the next.  The
\* first request of every query holds only that query's user message, and
\* every later message of its requests is the assistant or tool message of
\* one of this query's own tool calls, each assistant message being followed
\* by its tool message; so nothing an earlier query appended, aborted or not,
\* is ever sent again.
C11_FreshHistory ==
    \A k \in 1..Len(requests) :
        LET m == requests[k].messages
        IN  /\ m # <<>> /\ m[1] = UserMessage(query)
            /\ k = 1 => Len(m) = 1
            /\ NoOrphan(m)
            /\ \A i \in 2..Len(m) :
                  \/ /\ m[i].role = "assistant"
                     /\ i \div 2 <= Len(FirstCalls)
                     /\ m[i].tool_calls = <<FirstCalls[i \div 2]>>
                  \/ /\ m[i].role = "tool"
                     /\ i \div 2 <= Len(FirstCalls)
                     /\ m[i].tool_call_id = FirstCalls[i \div 2].id

\* the third line read follows one aborted and one returned iteration, and its
\* query has sent a follow-up request
C11_Witness ==
    /\ pc = "w_follow"
    /\ iterations = 3
    /\ errorLines = 1
    /\ Len(requests) = 2

\* C12: in the messages of every oracle request, a tool-role message follows
\* an assistant message and carries the id of that message's tool call, and
\* an assistant message carries exactly one tool call and is directly
\* followed by a tool-role message.
C12_PairedIds ==
    \A k \in 1..Len(requests) :
        LET m == requests[k].messages
        IN  \A i \in 1..Len(m) :
                /\ m[i].role = "tool" =>
                      /\ i > 1
                      /\ m[i - 1].role = "assistant"
                      /\ m[i].tool_call_id = m[i - 1].tool_calls[1].id
                /\ m[i].role = "assistant" =>
                      /\ Len(m[i].tool_calls) = 1
                      /\ i < Len(m)
                      /\ m[i + 1].role = "tool"

\* the request after the second tool call, holding two pairs
C12_Witness ==
    /\ pc = "w_follow"
    /\ Len(requests) = 3
    /\ requests[3].messages[5].tool_call_id = 2

IsPrefix(s, t) == Len(s) <= Len(t) /\ SubSeq(t, 1, Len(s)) = s

\* C13: within a query the history only grows: each oracle request's
\* messages extend those of the request before it, the first message is
\* always the user query, and the current history extends the last request's.
C13_AppendOnly ==
    /\ \A k \in 1..Len(requests) :
          /\ requests[k].messages # <<>>
          /\ requests[k].messages[1] = UserMessage(query)
          /\ k > 1 => IsPrefix(requests[k - 1].messages, requests[k].messages)
    /\ requests # <<>> => IsPrefix(requests[Len(requests)].messages, messages)

\* a third request whose five messages extend the three of the second
C13_Witness ==
    /\ Len(requests) = 3
    /\ Len(requests[2].messages) = 3
    /\ Len(requests[3].messages) = 5

RECURSIVE ToolParts(_, _, _)
\* trace line and raw outcome of the calls i..Len(calls), in order
ToolParts(calls, msgs, i) ==
    IF i > Len(calls) THEN <<>>
    ELSE <<TraceLine(calls[i].name, calls[i].arguments), msgs[2 * i + 1].content>>
            \o ToolParts(calls, msgs, i + 1)

\* C14: the returned text is, joined by newlines, the first content if
\* non-empty, then trace line and raw outcome of every tool call in list
\* order, then the follow-up content if non-empty; and no message of the
\* history is a trace line.
C14_ReturnedText ==
    /\ (Returned /\ FirstCalls # <<>>) =>
          \E f \in Contents :
              outcome[1].text =
                  Join(<<"\n">>,
                       RecordContent(
                           RecordContent(<<>>, message[1].content)
                               \o ToolParts(invoked, messages, 1), f))
    /\ \A i \in 1..Len(messages) :
          /\ messages[i].role \in {"user", "assistant", "tool"}
          /\ messages[i].role = "tool" =>
                \A j \in 1..Len(invoked) :
                    messages[i].content #
                        TraceLine(invoked[j].name, invoked[j].arguments)

\* C15: only the first oracle request of a query offers tool declarations,
\* with tool_choice "auto"; follow-up requests carry neither; and the tool
\* invocations of a query are calls of the first response, in its order, so
\* there are never more of them than the first response has tool calls.
C15_ToolsOnlyFirst ==
    /\ \A k \in 1..Len(requests) :
          IF k = 1
          THEN /\ requests[k].tools = Some(available_tools)
               /\ requests[k].tool_choice = Some("auto")
          ELSE /\ requests[k].tools = None
               /\ requests[k].tool_choice = None
    /\ Len(invoked) <= Len(FirstCalls)
    /\ \A i \in 1..Len(invoked) : invoked[i].id = FirstCalls[i].id

\* a follow-up request is outstanding after the only tool call of a response
C15_Witness ==
    /\ pc = "w_follow"
    /\ Len(FirstCalls) = 1
    /\ Len(invoked) = 1
    /\ Len(requests) = 2

\* C16: the declarations offered in the first request of every query are the
\* projection, in order, of the descriptors discovered at connect.
C16_CatalogFixed ==
    requests # <<>> =>
        requests[1].tools = Some(Declarations(connect_tools[1]))

\* C17: at most one request is outstanding; none is while the client is at
\* the prompt or between two tool calls; a tool call is outstanding only
\* after every earlier tool call of the response has returned and its
\* pair is in the history; and the outstanding request is the one the
\* current position awaits.
C17_OneOutstanding ==
    /\ Cardinality(inflight) <= 1
    /\ pc \in {"main", "connect", "prompt", "tool", "raised", "finally",
               "exited"} => inflight = {}
    /\ pc = "w_tool" =>
          /\ invoked # <<>>
          /\ inflight = {invoked[Len(invoked)]}
          /\ Len(invoked) = idx
          /\ Len(messages) = 1 + 2 * (idx - 1)
    /\ pc \in {"w_first", "w_follow"} =>
          inflight = {requests[Len(requests)]}
    /\ pc \in {"w_list", "w_list0"} => inflight = {Req("list_tools")}

\* the second tool call of a response is outstanding, the first has returned
C17_Witness ==
    /\ pc = "w_tool"
    /\ idx = 2
    /\ Len(messages) = 3
    /\ Cardinality(inflight) = 1

LoopSites ==
    {"input", "list_tools", "first_completion", "json_loads", "call_tool",
     "follow_up"}

\* C18 (as stated): once the chat loop has started, it is left only by
\* reading a line that is 'quit', with no exception pending.
C18_OnlyQuitExits ==
    (pc \in {"finally", "exited"} /\ connect_tools # None) =>
        exc = NoExc /\ line # None /\ IsQuitLine(line[1])

\* C18 (amended): once the chat loop has started, it is left either by
\* reading 'quit' with no exception pending, or by an exception that is not
\* an Exception (KeyboardInterrupt, CancelledError), which reaches main;
\* an Exception raised by reading the line or by process_query never ends
\* the loop and never reaches main.
C18_QuitOrEscape ==
    /\ (pc \in {"finally", "exited"} /\ connect_tools # None) =>
          \/ exc = NoExc /\ line # None /\ IsQuitLine(line[1])
          \/ exc # NoExc /\ exc[1].cls # "Exception"
                         /\ exc[1].site \in LoopSites
    /\ (exc # NoExc /\ exc[1].cls = "Exception" /\ exc[1].site \in LoopSites)
          => pc = "raised"

\* back at the prompt after two errors, the last one raised by input()
C18_Witness ==
    /\ pc = "prompt"
    /\ errorLines = 2
    /\ outcome = Some([kind |-> "error", text |-> <<"Error: ", "EOFError">>])

\* C19: the first response's content never enters the history: an assistant
\* message has a role and tool_calls and nothing else, and the k-th oracle
\* request of a query holds exactly 1 + 2 (k - 1) messages.
C19_ContentNotInHistory ==
    /\ \A i \in 1..Len(messages) :
          messages[i].role = "assistant" =>
              DOMAIN messages[i] = {"role", "tool_calls"}
    /\ \A k \in 1..Len(requests) :
          /\ Len(requests[k].messages) = 1 + 2 * (k - 1)
          /\ \A i \in 1..Len(requests[k].messages) :
                requests[k].messages[i].role = "assistant" =>
                    DOMAIN requests[k].messages[i] = {"role", "tool_calls"}

\* the first response had a text and two tool calls; the second follow-up
\* request holds five messages
C19_Witness ==
    /\ message # None
    /\ message[1].content = Some(<<"o", "k">>)
    /\ Len(requests) = 3
    /\ Len(requests[3].messages) = 5

====
